---------------------------- MODULE Spec2Model ----------------------------
(***************************************************************************)
(* Online-payment reconciliation of the event-management application:      *)
(*   - the ledger store (table "contributions"),                           *)
(*   - the Payment Webhook Handler (supabase edge function, part_001),     *)
(*   - the Order Request Handler (create-cashfree-order/index.ts),         *)
(*   - the ledger operations of the Contributions view (Planning.js).      *)
(* Strings whose characters the code inspects (order ids, contribution     *)
(* ids, form fields) are sequences of one-character strings.               *)
(***************************************************************************)
EXTENDS Integers, Sequences, FiniteSets, TLC

VARIABLES
  contributions,  \* the ledger: set of rows [id, contributor, amount, method, status]
  nextId,         \* the store's id generator for table "contributions"
  wh,             \* the webhook invocations that await the store, one per slot
  last,           \* the webhook invocation that completed last
  env,            \* the order function's environment: the set of variables that are set
  ord,            \* the order-request invocation
  pay,            \* the run of handlePayOnline in the Contributions view
  orders,         \* the order ids the order function has sent to the gateway
  plan            \* the Planning view and the table "planning" it shows

vars == <<contributions, nextId, wh, last, env, ord, pay, orders, plan>>

(***************************************************************************)
(* Bounds of the model.                                                    *)
(***************************************************************************)
\* ids the store hands out: 1..MaxRows
MaxRows == 2

\* ids the store hands out for table "planning": 1..MaxItems
MaxItems == 2

\* the runs of fetchPlanningItems that may await the store at the same time
MaxFetches == 2

\* the webhook invocations that may await the store at the same time
Slots == <<"w1", "w2">>

Invocations == {Slots[i] : i \in 1..Len(Slots)}

(***************************************************************************)
(* Characters and strings.                                                 *)
(***************************************************************************)
Digits == <<"0", "1", "2", "3", "4", "5", "6", "7", "8", "9">>

IsDigit(c) == \E i \in 1..10 : Digits[i] = c

DigitVal(c) == (CHOOSE i \in 1..10 : Digits[i] = c) - 1

IsSpace(c) == c = " "

\* String(n) for a non-negative integer n: its decimal digits
RECURSIVE NatToStr(_)
NatToStr(n) ==
  IF n < 10 THEN <<Digits[n + 1]>>
  ELSE Append(NatToStr(n \div 10), Digits[(n % 10) + 1])

\* parseInt(s, 10) for a string s of decimal digits (leading zeros allowed)
RECURSIVE parseInt(_)
parseInt(ds) ==
  IF ds = <<>> THEN 0
  ELSE 10 * parseInt(SubSeq(ds, 1, Len(ds) - 1)) + DigitVal(ds[Len(ds)])

\* String.prototype.trim
RECURSIVE TrimLeft(_)
TrimLeft(s) ==
  IF s # <<>> /\ IsSpace(s[1]) THEN TrimLeft(Tail(s)) ELSE s

RECURSIVE TrimRight(_)
TrimRight(s) ==
  IF s # <<>> /\ IsSpace(s[Len(s)]) THEN TrimRight(SubSeq(s, 1, Len(s) - 1)) ELSE s

Trim(s) == TrimRight(TrimLeft(s))

OrderPrefix == <<"o", "r", "d", "e", "r", "_">>

\* the template literal `order_${contribution_id}_${Date.now()}`
MkOrderId(cid, now) == OrderPrefix \o cid \o <<"_">> \o now

\* length of the longest run of digits of s that starts at position i
RECURSIVE DigitRun(_, _)
DigitRun(s, i) ==
  IF i <= Len(s) /\ IsDigit(s[i]) THEN 1 + DigitRun(s, i + 1) ELSE 0

\* orderId.match(/^order_(\d+)_/): the captured group, or <<>> when there is no match.
\* "_" is no digit, so the only candidate for \d+ is the longest run of digits.
MatchNoUnderscore(s) ==
  LET k == DigitRun(s, Len(OrderPrefix) + 1)
  IN  IF /\ Len(s) >= Len(OrderPrefix)
         /\ SubSeq(s, 1, Len(OrderPrefix)) = OrderPrefix
         /\ k >= 1
      THEN SubSeq(s, Len(OrderPrefix) + 1, Len(OrderPrefix) + k)
      ELSE <<>>

MatchOrderId(s) ==
  LET k == DigitRun(s, Len(OrderPrefix) + 1)
  IN  IF /\ Len(s) >= Len(OrderPrefix)
         /\ SubSeq(s, 1, Len(OrderPrefix)) = OrderPrefix
         /\ k >= 1
         /\ Len(s) >= Len(OrderPrefix) + k + 1
         /\ s[Len(OrderPrefix) + k + 1] = "_"
      THEN SubSeq(s, Len(OrderPrefix) + 1, Len(OrderPrefix) + k)
      ELSE <<>>

(***************************************************************************)
(* The ledger store.                                                       *)
(***************************************************************************)
RowIds(rows) == {r.id : r \in rows}

RowOf(rows, id) == CHOOSE r \in rows : r.id = id

StatusOf(rows, id) ==
  IF id \in RowIds(rows) THEN RowOf(rows, id).status ELSE "none"

\* .insert([{contributor, amount, method, status}]): the store generates the id
StoreInsert(rows, id, contributor, amount, method, status) ==
  rows \cup {[id |-> id, contributor |-> contributor, amount |-> amount,
              method |-> method, status |-> status]}

\* .update({ status }).eq('id', id): the rows with that id get the status
StoreUpdateStatus(rows, id, status) ==
  {IF r.id = id THEN [r EXCEPT !.status = status] ELSE r : r \in rows}

\* .delete().eq('id', id)
StoreDelete(rows, id) == {r \in rows : r.id # id}

(***************************************************************************)
(* Payment Webhook Handler: the requests it is sent.                       *)
(*   method          the HTTP method                                       *)
(*   parse           JSON.parse(rawBody): throws ("invalid"), gives null,  *)
(*                   or gives another JSON value ("value")                 *)
(*   type            payload.type                                          *)
(*   test_object     whether payload.data?.test_object is truthy           *)
(*   order_id        payload.data?.order?.order_id: falsy but no string    *)
(*                   ("absent"), truthy and no string ("nonstring"), or a  *)
(*                   string with its characters                            *)
(*   payment_status  payload.data?.payment?.payment_status                 *)
(***************************************************************************)
AbsentId == [kind |-> "absent", chars |-> <<>>]

NonStringId == [kind |-> "nonstring", chars |-> <<>>]

StrId(s) == [kind |-> "string", chars |-> s]

\* Date.now() as the gateway echoes it back in the order id
Now == <<"1", "7">>

\* order ids as the Order Request Handler builds them for the ids the store hands
\* out (a row that is not created yet, or deleted, is unknown to the store), and
\* one with a leading zero
WellFormedOrderIds ==
  {MkOrderId(NatToStr(n), Now) : n \in 1..MaxRows}
    \cup {MkOrderId(<<"0">> \o NatToStr(1), Now)}

MalformedOrderIds ==
  { <<"b", "a", "d", "_", "f", "o", "r", "m", "a", "t">>,
    OrderPrefix \o <<"1">>,                   \* "order_1": no second underscore
    <<"x">> \o MkOrderId(<<"1">>, Now) }      \* "xorder_1_17": not at the start

OrderIdValues ==
  {AbsentId, NonStringId, StrId(<<>>)}
    \cup {StrId(s) : s \in WellFormedOrderIds \cup MalformedOrderIds}

PaymentStatuses == {"ABSENT", "SUCCESS", "FAILED"}

Payload(m, j, t, tst, o, ps) ==
  [method |-> m, parse |-> j, type |-> t, test_object |-> tst,
   order_id |-> o, payment_status |-> ps]

FirstOrderId == StrId(MkOrderId(NatToStr(1), Now))

BadFormatId == StrId(<<"b", "a", "d", "_", "f", "o", "r", "m", "a", "t">>)

Payloads ==
  \* a preflight, a body that is no JSON, the body "null"
  { Payload("OPTIONS", "invalid", "NONE", FALSE, AbsentId, "ABSENT"),
    Payload("POST", "invalid", "NONE", FALSE, AbsentId, "ABSENT"),
    Payload("POST", "null", "NONE", FALSE, AbsentId, "ABSENT") }
  \* payment events: a success for every order id, other outcomes for some
  \cup { Payload("POST", "value", "PAYMENT", FALSE, o, "SUCCESS") : o \in OrderIdValues }
  \cup { Payload("POST", "value", "PAYMENT", FALSE, StrId(s), "FAILED") :
            s \in WellFormedOrderIds }
  \cup { Payload("POST", "value", "PAYMENT", FALSE, o, "ABSENT") :
            o \in {BadFormatId, FirstOrderId} }
  \* connectivity tests, with and without an order in them
  \cup { Payload("POST", "value", "WEBHOOK", TRUE, AbsentId, "ABSENT"),
         Payload("POST", "value", "WEBHOOK", TRUE, BadFormatId, "SUCCESS"),
         Payload("POST", "value", "WEBHOOK", TRUE, FirstOrderId, "SUCCESS") }
  \* events that have only one of the two marks of a test
  \cup { Payload("POST", "value", "WEBHOOK", FALSE, FirstOrderId, "SUCCESS"),
         Payload("POST", "value", "PAYMENT", TRUE, FirstOrderId, "FAILED") }

(***************************************************************************)
(* Payment Webhook Handler: the code up to the store update.               *)
(***************************************************************************)
NoResp == [status |-> 0, body |-> "", cors |-> FALSE]

\* new Response(body, { status, headers: corsHeaders })
Response(status, body) == [status |-> status, body |-> body, cors |-> TRUE]

\* std/http serve: a handler that throws is answered by the default onError
ServeOnError == [status |-> 500, body |-> "Internal Server Error", cors |-> FALSE]

Falsy(o) == o.kind = "absent" \/ (o.kind = "string" /\ o.chars = <<>>)

\* line 32
IsTestEventTopLevel(p) == p.type = "WEBHOOK" /\ FALSE

IsTestEvent(p) == p.type = "WEBHOOK" /\ p.test_object

\* What the handler does with a request before it touches the store:
\*   [next |-> "respond", resp, id]   it returns resp
\*   [next |-> "throw", ...]          an exception leaves the handler
\*   [next |-> "update", id, write]   it goes on to set the status of row id to write
Decide(next, resp, id, write) ==
  [next |-> next, resp |-> resp, id |-> id, write |-> write]

\* lines 60-65: whether a payment status makes the handler update, and the status
\* it then writes
WebhookActionAlways(ps) ==
  [update |-> TRUE, status |-> IF ps = "SUCCESS" THEN "success" ELSE "pending"]

WebhookActionNever(ps) == [update |-> FALSE, status |-> ""]

WebhookActionMarksFailed(ps) ==
  IF ps = "SUCCESS" THEN [update |-> TRUE, status |-> "success"]
  ELSE [update |-> TRUE, status |-> "failed"]

WebhookAction(ps) ==
  IF ps = "SUCCESS" THEN [update |-> TRUE, status |-> "success"]
  ELSE [update |-> FALSE, status |-> ""]

WebhookPrefix(p) ==
  IF p.method = "OPTIONS" THEN Decide("respond", Response(200, "ok"), 0, "")
  ELSE IF p.parse = "invalid"
    THEN Decide("respond", Response(200, "Invalid JSON"), 0, "")
  ELSE IF p.parse = "null"
    THEN Decide("throw", NoResp, 0, "")             \* payload.type of null
  ELSE IF IsTestEvent(p)
    THEN Decide("respond", Response(200, "acknowledged"), 0, "")
  ELSE IF Falsy(p.order_id) \/ p.payment_status = "ABSENT"
    THEN Decide("respond", Response(200, "Invalid webhook structure"), 0, "")
  ELSE IF p.order_id.kind = "nonstring"
    THEN Decide("throw", NoResp, 0, "")             \* orderId.match is not a function
  ELSE IF MatchOrderId(p.order_id.chars) = <<>>
    THEN Decide("respond", Response(200, "Invalid order_id format"), 0, "")
  ELSE IF WebhookAction(p.payment_status).update
    THEN Decide("update", NoResp, parseInt(MatchOrderId(p.order_id.chars)),
                WebhookAction(p.payment_status).status)
  ELSE Decide("respond", Response(200, "Webhook processed"),
              parseInt(MatchOrderId(p.order_id.chars)), "")

\* the decision for each request of the model
WebhookDecision == [p \in Payloads |-> WebhookPrefix(p)]

(***************************************************************************)
(* Payment Webhook Handler: the invocations.                               *)
(* An invocation runs to its response without a pause unless it updates    *)
(* the store: it then awaits the store in a slot of wh, and other          *)
(* invocations and the clients run meanwhile.                              *)
(*   wh[w]:  busy, and the locals: payload, id (contributionId) and the    *)
(*           status the update writes                                      *)
(*   last:   the invocation that completed last:                           *)
(*     n         0 before any invocation completed, else 1                 *)
(*     payload   the request                                               *)
(*     id        contributionId (0: none was extracted)                    *)
(*     before    the status of row id when the handler decided on it       *)
(*     store     what the store did with the update ("none": no update)    *)
(*     touched   whether the invocation changed the ledger                 *)
(*     attempts  the store updates it issued                               *)
(*     resp      the response                                              *)
(***************************************************************************)
IdlePayload == Payload("POST", "invalid", "NONE", FALSE, AbsentId, "ABSENT")

IdleSlot == [busy |-> FALSE, payload |-> IdlePayload, id |-> 0, write |-> ""]

NoInvocation ==
  [n |-> 0, payload |-> IdlePayload, id |-> 0, before |-> "none",
   store |-> "none", touched |-> FALSE, attempts |-> 0, resp |-> NoResp]

Completed(p, id, before, store, touched, attempts, resp) ==
  [n |-> 1, payload |-> p, id |-> id, before |-> before,
   store |-> store, touched |-> touched, attempts |-> attempts, resp |-> resp]

\* the slot a new invocation that awaits the store takes
FreeSlot ==
  Slots[CHOOSE i \in 1..Len(Slots) :
          /\ ~wh[Slots[i]].busy
          /\ \A j \in 1..(i - 1) : wh[Slots[j]].busy]

\* lines 15-58, and line 75 for a status that asks for no update
WebhookReceive(p) ==
  LET d == WebhookDecision[p]
  IN  IF d.next = "update"
        THEN /\ \E w \in Invocations : ~wh[w].busy
             /\ wh' = [wh EXCEPT ![FreeSlot] =
                         [busy |-> TRUE, payload |-> p, id |-> d.id, write |-> d.write]]
             /\ UNCHANGED <<contributions, nextId, last, env, ord, pay, orders, plan>>
        ELSE /\ last' = Completed(p, d.id, StatusOf(contributions, d.id),
                                  "none", FALSE, 0,
                                  IF d.next = "throw" THEN ServeOnError ELSE d.resp)
             /\ UNCHANGED <<contributions, nextId, wh, env, ord, pay, orders, plan>>

\* what the store does with the update: it applies it, returns an error, or the
\* client library throws
StoreOutcomes == {"ok", "error", "throw"}

\* the rows after supabase.from('contributions').update({ status }).eq('id', id)
WebhookWriteNothing(rows, id, status) == rows

WebhookWriteUpsert(rows, id, status) ==
  IF id \in RowIds(rows) THEN StoreUpdateStatus(rows, id, status)
  ELSE StoreInsert(rows, id, <<>>, 0, "online", status)

WebhookWriteIfOrdered(rows, id, status) ==
  IF \E s \in orders : MatchOrderId(s) # <<>> /\ parseInt(MatchOrderId(s)) = id
    THEN StoreUpdateStatus(rows, id, status)
    ELSE rows

WebhookWriteAllRows(rows, id, status) == {[r EXCEPT !.status = status] : r \in rows}

WebhookWrite(rows, id, status) == StoreUpdateStatus(rows, id, status)

\* the response after the update, lines 67-75
WebhookAfterUpdateFails(outcome) ==
  IF outcome = "throw" THEN ServeOnError
  ELSE IF outcome = "error" THEN Response(500, "Database update failed")
  ELSE Response(200, "Webhook processed")

WebhookAfterUpdate(outcome) ==
  IF outcome = "throw" THEN ServeOnError
  ELSE IF outcome = "error" THEN Response(200, "Database update failed")
  ELSE Response(200, "Webhook processed")

\* lines 61-75: the awaited update and the response
WebhookUpdate(w, outcome) ==
  /\ wh[w].busy
  /\ contributions' = IF outcome = "ok"
                        THEN WebhookWrite(contributions, wh[w].id, wh[w].write)
                        ELSE contributions
  /\ last' = Completed(wh[w].payload, wh[w].id,
                       StatusOf(contributions, wh[w].id), outcome,
                       contributions' # contributions, 1, WebhookAfterUpdate(outcome))
  /\ wh' = [wh EXCEPT ![w] = IdleSlot]
  /\ UNCHANGED <<nextId, env, ord, pay, orders, plan>>

(***************************************************************************)
(* The Contributions view: the operations that write the ledger.           *)
(***************************************************************************)
\* the number +s of a form field: NaN unless s is an optional "-" and digits
IsNumeral(s) ==
  LET t == IF s # <<>> /\ s[1] = "-" THEN Tail(s) ELSE s
  IN  t # <<>> /\ \A i \in 1..Len(t) : IsDigit(t[i])

ToNumber(s) ==
  IF s = <<>> THEN 0
  ELSE IF s[1] = "-" THEN 0 - parseInt(Tail(s))
  ELSE parseInt(s)

\* validateForm, lines 668-675
validateForm(contributor, amount) ==
  ~ ( \/ Trim(contributor) = <<>>
      \/ amount = <<>>
      \/ ~IsNumeral(amount)
      \/ ToNumber(amount) <= 0 )

FormNames == {<<>>, <<" ">>, <<" ", "A">>}

FormAmounts == {<<>>, <<"a">>, <<"0">>, <<"-", "5">>, <<"5">>}

\* the row handleAddContribution inserts, line 651
CashRow(rows, id, contributor, amount) ==
  StoreInsert(rows, id, Trim(contributor), ToNumber(amount), "cash", "success")

\* the row handlePayOnline inserts, lines 567-572
OnlineRowPaid(rows, id, contributor, amount) ==
  StoreInsert(rows, id, Trim(contributor), ToNumber(amount), "online", "success")

OnlineRow(rows, id, contributor, amount) ==
  StoreInsert(rows, id, Trim(contributor), ToNumber(amount), "online", "pending")

\* handleAddContribution, lines 643-666
handleAddContribution(contributor, amount, insertOk) ==
  /\ validateForm(contributor, amount)
  /\ insertOk
  /\ nextId <= MaxRows
  /\ contributions' = CashRow(contributions, nextId, contributor, amount)
  /\ nextId' = nextId + 1
  /\ UNCHANGED <<wh, last, env, ord, pay, orders, plan>>

\* handlePayOnline, step 1, lines 557-578
handlePayOnlineInsert(contributor, amount, insertOk) ==
  /\ validateForm(contributor, amount)
  /\ insertOk
  /\ nextId <= MaxRows
  /\ contributions' = OnlineRow(contributions, nextId, contributor, amount)
  /\ nextId' = nextId + 1
  /\ UNCHANGED <<wh, last, env, ord, pay, orders, plan>>

\* handleDeleteContribution, lines 536-556
handleDeleteContribution(id, deleteOk) ==
  /\ id \in RowIds(contributions)
  /\ deleteOk
  /\ contributions' = StoreDelete(contributions, id)
  /\ UNCHANGED <<nextId, wh, last, env, ord, pay, orders, plan>>

\* the environment variables the order function reads, lines 22-25
AllEnv == {"CASHFREE_APP_ID", "CASHFREE_SECRET_KEY", "CASHFREE_API_URL", "APP_URL"}

(***************************************************************************)
(* Order Request Handler: the requests it is sent.                         *)
(*   parse            req.json(): throws ("invalid"), gives null, or gives *)
(*                    another JSON value ("value")                         *)
(*   amount           whether body.amount is a number, and the number      *)
(*   contributor      whether body.contributor is a string, and the string *)
(*   contribution_id  whether body.contribution_id is a string, and it     *)
(***************************************************************************)
NoNumber == [isNumber |-> FALSE, v |-> 0]

Num(n) == [isNumber |-> TRUE, v |-> n]

NoString == [isString |-> FALSE, chars |-> <<>>]

Str(s) == [isString |-> TRUE, chars |-> s]

Amounts == {NoNumber, Num(0 - 5), Num(0), Num(5)}

Contributors == {NoString, Str(<<>>), Str(<<" ">>), Str(<<"A">>)}

ContributionIds ==
  {NoString, Str(<<>>), Str(<<" ">>), Str(<<"1">>), Str(<<" ", "1">>), Str(<<"x">>)}

OrderRequest(m, j, a, c, cid) ==
  [method |-> m, parse |-> j, amount |-> a, contributor |-> c, contribution_id |-> cid]

OrderRequests ==
  { OrderRequest("OPTIONS", "invalid", NoNumber, NoString, NoString),
    OrderRequest("POST", "invalid", NoNumber, NoString, NoString),
    OrderRequest("POST", "null", NoNumber, NoString, NoString) }
  \cup { OrderRequest("POST", "value", a, c, cid) :
            a \in Amounts, c \in Contributors, cid \in ContributionIds }

\* Deno.env: every variable set, one of them missing, none set
EnvChoices == {AllEnv} \cup {AllEnv \ {v} : v \in AllEnv} \cup {{}}

(***************************************************************************)
(* The gateway's answers to the order-creation call.                       *)
(* A body is a text: no JSON ("invalid"), or the JSON null, or a JSON      *)
(* object with its message and payment_session_id members ("" when it has  *)
(* none), written with or without insignificant white space.               *)
(***************************************************************************)
JsonText(syntax, isNull, message, session, spaced) ==
  [syntax |-> syntax, isNull |-> isNull, message |-> message,
   payment_session_id |-> session, spaced |-> spaced]

NoText == JsonText("invalid", FALSE, "", "", FALSE)

\* JSON.parse of a text that is JSON: the value
JsonParse(t) ==
  [isNull |-> t.isNull, message |-> t.message, payment_session_id |-> t.payment_session_id]

\* JSON.stringify of a value: the text without white space
JsonStringify(v) ==
  JsonText("json", v.isNull, v.message, v.payment_session_id, FALSE)

GatewayReply(thrown, ok, status, body) ==
  [thrown |-> thrown, ok |-> ok, status |-> status, body |-> body]

GatewayBodies ==
  { NoText,
    JsonText("json", TRUE, "", "", FALSE),
    JsonText("json", FALSE, "", "", FALSE),
    JsonText("json", FALSE, "order_id already exists", "", FALSE),
    JsonText("json", FALSE, "", "session_abc", FALSE),
    JsonText("json", FALSE, "", "session_abc", TRUE) }

GatewayReplies ==
  { GatewayReply(TRUE, FALSE, 0, NoText) }                           \* fetch rejects
  \cup { GatewayReply(FALSE, TRUE, 200, b) : b \in GatewayBodies }
  \cup { GatewayReply(FALSE, FALSE, st, b) : st \in {400, 503}, b \in GatewayBodies }

(***************************************************************************)
(* Order Request Handler: the responses.                                   *)
(*   status  the HTTP status                                               *)
(*   plain   the body of a response that is no JSON                        *)
(*   error   the error member of an {error} body, as the parts it is       *)
(*           put together from; <<>> when the body is no {error}           *)
(*   body    the JSON text of a forwarded body                             *)
(***************************************************************************)
NoOrderResp == [status |-> 0, plain |-> "", error |-> <<>>, body |-> NoText]

PlainResponse(text) == [status |-> 200, plain |-> text, error |-> <<>>, body |-> NoText]

\* jsonResponse({ error }, status)
ErrorResponse(msg, status) == [status |-> status, plain |-> "", error |-> msg, body |-> NoText]

\* jsonResponse(responseData, 200)
ForwardWithoutSession(v) ==
  [status |-> 200, plain |-> "", error |-> <<>>,
   body |-> JsonStringify([v EXCEPT !.payment_session_id = ""])]

ForwardResponse(v) == [status |-> 200, plain |-> "", error |-> <<>>, body |-> JsonStringify(v)]

ConfigError == ErrorResponse(<<"Server configuration error.">>, 500)

BodyError == ErrorResponse(<<"Invalid JSON in request body.">>, 400)

AmountError ==
  ErrorResponse(<<"Invalid or missing \"amount\". It must be a positive number.">>, 400)

ContributorError ==
  ErrorResponse(<<"Invalid or missing \"contributor\". It must be a non-empty string.">>, 400)

ContributionIdError ==
  ErrorResponse(<<"Invalid or missing \"contribution_id\". It must be a non-empty string.">>, 400)

\* the catch of line 93
InternalErrorEscapes ==
  [status |-> 500, plain |-> "Internal Server Error", error |-> <<>>, body |-> NoText]

InternalError == ErrorResponse(<<"An unexpected internal server error occurred.">>, 500)

\* line 27
ConfigCompleteNoAppUrl(e) == (AllEnv \ {"APP_URL"}) \subseteq e

ConfigComplete(e) == AllEnv \subseteq e

NonEmptyString(x) == x.isString /\ Trim(x.chars) # <<>>

\* line 42
AmountValidZero(a) == a.isNumber /\ a.v >= 0

AmountValid(a) == a.isNumber /\ a.v > 0

\* line 45
ContributorValid(x) == NonEmptyString(x)

\* line 48
ContributionIdNoTrim(x) == x.isString /\ x.chars # <<>>

ContributionIdValid(x) == NonEmptyString(x)

\* lines 14-50: the response of a request that does not reach the gateway, or
\* NoOrderResp for one that does
OrderValidateBodyFirst(e, r) ==
  IF r.method = "OPTIONS" THEN PlainResponse("ok")
  ELSE IF r.parse = "invalid" THEN BodyError
  ELSE IF ~ConfigComplete(e) THEN ConfigError
  ELSE IF r.parse = "null" THEN InternalError
  ELSE IF ~AmountValid(r.amount) THEN AmountError
  ELSE IF ~ContributorValid(r.contributor) THEN ContributorError
  ELSE IF ~ContributionIdValid(r.contribution_id) THEN ContributionIdError
  ELSE NoOrderResp

OrderValidate(e, r) ==
  IF r.method = "OPTIONS" THEN PlainResponse("ok")
  ELSE IF ~ConfigComplete(e) THEN ConfigError
  ELSE IF r.parse = "invalid" THEN BodyError
  ELSE IF r.parse = "null" THEN InternalError        \* destructuring null throws
  ELSE IF ~AmountValid(r.amount) THEN AmountError
  ELSE IF ~ContributorValid(r.contributor) THEN ContributorError
  ELSE IF ~ContributionIdValid(r.contribution_id) THEN ContributionIdError
  ELSE NoOrderResp

\* lines 81-92: the response to the gateway's answer
OrderFromGateway(g) ==
  IF g.thrown THEN InternalError                      \* fetch rejects
  ELSE IF g.body.syntax = "invalid" THEN InternalError   \* apiResponse.json() rejects
  ELSE IF ~g.ok
    THEN IF JsonParse(g.body).isNull THEN InternalError  \* responseData.message of null
         ELSE IF JsonParse(g.body).message # ""
           THEN ErrorResponse(<<"Payment gateway error: ", JsonParse(g.body).message>>, 502)
         ELSE ErrorResponse(<<"Payment gateway error: ", "Cashfree API returned status ">>
                              \o NatToStr(g.status), 502)
  ELSE ForwardResponse(JsonParse(g.body))

(***************************************************************************)
(* Order Request Handler: the invocation.                                  *)
(*   pc       "idle", "fetch" (awaiting the gateway) or "done"             *)
(*   req      the request                                                  *)
(*   orderId  the order id sent to the gateway                             *)
(*   calls    the calls to the gateway the invocation made                 *)
(*   gw       the gateway's answer                                         *)
(*   resp     the response                                                 *)
(***************************************************************************)
IdleRequest == OrderRequest("POST", "invalid", NoNumber, NoString, NoString)

NoReply == GatewayReply(FALSE, FALSE, 0, NoText)

IdleOrder ==
  [pc |-> "idle", req |-> IdleRequest, orderId |-> <<>>, calls |-> 0,
   gw |-> NoReply, resp |-> NoOrderResp]

\* lines 12-79: validation and, for a valid request, the call to the gateway
OrderStarted(e, r, now) ==
  IF OrderValidate(e, r) = NoOrderResp
    THEN [pc |-> "fetch", req |-> r,
          orderId |-> MkOrderId(r.contribution_id.chars, now),
          calls |-> 1, gw |-> NoReply, resp |-> NoOrderResp]
    ELSE [pc |-> "done", req |-> r, orderId |-> <<>>, calls |-> 0,
          gw |-> NoReply, resp |-> OrderValidate(e, r)]

\* the order ids sent to the gateway, after the invocation o has started
OrdersWith(o) == IF o.calls = 1 THEN orders \cup {o.orderId} ELSE orders

OrderReceive(r, now) ==
  /\ ord.pc \in {"idle", "done"}
  /\ ord' = OrderStarted(env, r, now)
  /\ orders' = OrdersWith(ord')
  /\ UNCHANGED <<contributions, nextId, wh, last, env, pay, plan>>

\* lines 81-97: the gateway's answer and the response
OrderGatewayAnswer(g) ==
  /\ ord.pc = "fetch"
  /\ ord' = [ord EXCEPT !.pc = "done", !.gw = g, !.resp = OrderFromGateway(g)]
  /\ UNCHANGED <<contributions, nextId, wh, last, env, pay, orders, plan>>

(***************************************************************************)
(* The Contributions view: handlePayOnline, lines 557-641.                 *)
(*   pc         "idle", "invoke" (the row is inserted, the order function  *)
(*              is not invoked yet), "await" (the order function runs),    *)
(*              "checkout" (cashfree.checkout is called) or "done"         *)
(*   contributor, amount   the form fields the run closed over             *)
(*   id         newContribution.id (0: no row was inserted)                *)
(*   invoked    the invocations of the order function the run made         *)
(*   checkouts  the calls of cashfree.checkout the run made                *)
(*   session    the paymentSessionId handed to cashfree.checkout           *)
(*   sdk        window.Cashfree as line 612 found it: "loaded", "missing", *)
(*              or "" when the run did not get there                       *)
(*   failed     the step that failed ("": none)                            *)
(*   error      the message given to setError, as the parts it is put      *)
(*              together from (<<>>: none)                                 *)
(***************************************************************************)
NoPay ==
  [pc |-> "idle", contributor |-> <<>>, amount |-> <<>>, id |-> 0, invoked |-> 0,
   checkouts |-> 0, session |-> "", sdk |-> "", failed |-> "", error |-> <<>>]

\* line 671
FormMessage == <<"Please enter a valid name and a positive amount.">>

\* line 577
InsertMessage == <<"Could not save your contribution record. Please try again.">>

\* line 594
UnknownFunctionMessage == <<"An unknown error occurred with the payment function.">>

\* functionError.message of a FunctionsHttpError
Non2xxMessage == <<"Edge Function returned a non-2xx status code">>

\* line 608
SessionMessage == <<"Failed to get a valid payment session from the server.">>

\* line 613
SdkMessage == <<"Payment SDK (Cashfree) is not loaded. Please refresh the page.">>

\* line 628
CheckoutMessage == <<"Payment Gateway Error: ", "checkout failed">>

\* err.message of an error the SDK throws
SdkThrowMessage == <<"checkout threw">>

\* line 635, for a thrown value without a message
FallbackMessage == <<"An unexpected error occurred during payment initiation.">>

\* lines 632-640: the catch and the finally
PayFailed(p, step, msg) == [p EXCEPT !.pc = "done", !.failed = step, !.error = msg]

\* lines 632-635: what the catch does to the ledger
handlePayOnlineCatchDeletes(rows, id) == StoreDelete(rows, id)

handlePayOnlineCatch(rows, id) == rows

\* lines 582-587: the body of the invocation
PayRequest(p) ==
  OrderRequest("POST", "value", Num(ToNumber(p.amount)), Str(Trim(p.contributor)),
               Str(NatToStr(p.id)))

\* lines 594-604: errorBody.error || functionError.message
InvokeMessage(resp) == IF resp.error # <<>> THEN resp.error ELSE Non2xxMessage

\* functionData?.payment_session_id of a 2xx response ("": falsy)
SessionOf(resp) ==
  IF resp.body.syntax # "json" \/ JsonParse(resp.body).isNull THEN ""
  ELSE JsonParse(resp.body).payment_session_id

\* lines 590-624: from the order function's response to the call of cashfree.checkout
PayAfterOrderNoSessionCheck(p, resp, sdk) ==
  IF resp.status # 200 THEN PayFailed(p, "order", InvokeMessage(resp))
  ELSE IF ~sdk THEN PayFailed([p EXCEPT !.sdk = "missing"], "sdk", SdkMessage)
  ELSE [p EXCEPT !.pc = "checkout", !.sdk = "loaded", !.checkouts = 1,
                 !.session = SessionOf(resp)]

PayAfterOrder(p, resp, sdk) ==
  IF resp.status # 200 THEN PayFailed(p, "order", InvokeMessage(resp))
  ELSE IF SessionOf(resp) = "" THEN PayFailed(p, "session", SessionMessage)
  ELSE IF ~sdk THEN PayFailed([p EXCEPT !.sdk = "missing"], "sdk", SdkMessage)
  ELSE [p EXCEPT !.pc = "checkout", !.sdk = "loaded", !.checkouts = 1,
                 !.session = SessionOf(resp)]

\* what cashfree.checkout does: the browser navigates away, it resolves with an
\* error, it throws an error, it throws a value that has no message
CheckoutOutcomes == {"redirect", "error", "throw", "throwBare"}

\* lines 626-640
PayAfterCheckout(p, outcome) ==
  IF outcome = "redirect" THEN [p EXCEPT !.pc = "done"]
  ELSE IF outcome = "error" THEN PayFailed(p, "checkout", CheckoutMessage)
  ELSE IF outcome = "throw" THEN PayFailed(p, "checkout", SdkThrowMessage)
  ELSE PayFailed(p, "checkout", FallbackMessage)

\* lines 557-578: validateForm and step 1, the insert of the pending row
handlePayOnline(contributor, amount, insertOk) ==
  /\ pay.pc \in {"idle", "done"}
  /\ LET p == [NoPay EXCEPT !.contributor = contributor, !.amount = amount]
     IN  IF ~validateForm(contributor, amount)
           THEN /\ pay' = PayFailed(p, "form", FormMessage)
                /\ UNCHANGED <<contributions, nextId>>
         ELSE IF ~insertOk
           THEN /\ pay' = PayFailed(p, "insert", InsertMessage)
                /\ contributions' = handlePayOnlineCatch(contributions, 0)
                /\ UNCHANGED nextId
         ELSE /\ nextId <= MaxRows
              /\ contributions' = OnlineRow(contributions, nextId, contributor, amount)
              /\ nextId' = nextId + 1
              /\ pay' = [p EXCEPT !.pc = "invoke", !.id = nextId]
  /\ UNCHANGED <<wh, last, env, ord, orders, plan>>

\* lines 581-588: step 2, supabase.functions.invoke('create-cashfree-order'); the
\* function is reached and starts, or the request fails on its way
handlePayOnlineInvoke(reached) ==
  /\ pay.pc = "invoke"
  /\ IF reached
       THEN /\ ord.pc \in {"idle", "done"}
            /\ ord' = OrderStarted(env, PayRequest(pay), Now)
            /\ orders' = OrdersWith(ord')
            /\ pay' = [pay EXCEPT !.pc = "await", !.invoked = 1]
            /\ UNCHANGED contributions
       ELSE /\ pay' = PayFailed([pay EXCEPT !.invoked = 1], "order", UnknownFunctionMessage)
            /\ contributions' = handlePayOnlineCatch(contributions, pay.id)
            /\ UNCHANGED <<ord, orders>>
  /\ UNCHANGED <<nextId, wh, last, env, plan>>

\* lines 590-624: the function's response, and the call of cashfree.checkout
handlePayOnlineSession(sdk) ==
  /\ pay.pc = "await"
  /\ ord.pc = "done"
  /\ pay' = PayAfterOrder(pay, ord.resp, sdk)
  /\ contributions' = IF pay'.pc = "done"
                        THEN handlePayOnlineCatch(contributions, pay.id)
                        ELSE contributions
  /\ UNCHANGED <<nextId, wh, last, env, ord, orders, plan>>

\* lines 621-640: what cashfree.checkout gives
handlePayOnlineCheckout(outcome) ==
  /\ pay.pc = "checkout"
  /\ pay' = PayAfterCheckout(pay, outcome)
  /\ contributions' = IF pay'.failed # ""
                        THEN handlePayOnlineCatch(contributions, pay.id)
                        ELSE contributions
  /\ UNCHANGED <<nextId, wh, last, env, ord, orders, plan>>

(***************************************************************************)
(* The Planning view, Planning.js lines 13-103, and the table "planning".  *)
(*   store     the rows of the table: [id, name, amount, type]             *)
(*   nextId    the store's id generator for the table                      *)
(*   items     plannedItems, the component's list                          *)
(*   triggers  the calls of fetchPlanningItems that are due: the one of    *)
(*             the mount and one for each change notification              *)
(*   fetches   the runs of fetchPlanningItems that await the store:        *)
(*             the rows each select has read                               *)
(*   adding    the row whose insert response handleAddItem awaits          *)
(*             (id 0: none)                                                *)
(*   deleting  the id whose delete response handleDeleteItem awaits        *)
(*             (0: none)                                                   *)
(*   error     the message given to setError ("": none)                    *)
(***************************************************************************)
NoItem == [id |-> 0, name |-> <<>>, amount |-> 0, type |-> ""]

NoPlan ==
  [store |-> {}, nextId |-> 1, items |-> <<>>, triggers |-> 1, fetches |-> <<>>,
   adding |-> NoItem, deleting |-> 0, error |-> ""]

\* .order("created_at", { ascending: false }): the newest row first
RECURSIVE NewestFirst(_)
NewestFirst(rows) ==
  IF rows = {} THEN <<>>
  ELSE LET m == CHOOSE r \in rows : \A q \in rows : q.id <= r.id
       IN  <<m>> \o NewestFirst(rows \ {m})

\* line 59
PlanFormValid(name, amount) ==
  ~ ( \/ Trim(name) = <<>>
      \/ amount = <<>>
      \/ ~IsNumeral(amount)
      \/ ToNumber(amount) <= 0 )

\* line 78: setPlannedItems((prev) => [newItem, ...prev])
Prepend(item, prev) == <<item>> \o prev

\* line 91: prev.filter((item) => item.id !== id)
RECURSIVE WithoutId(_, _)
WithoutId(prev, id) ==
  IF prev = <<>> THEN <<>>
  ELSE IF Head(prev).id = id THEN WithoutId(Tail(prev), id)
  ELSE <<Head(prev)>> \o WithoutId(Tail(prev), id)

\* lines 95-103
RECURSIVE SumOfType(_, _)
SumOfType(list, type) ==
  IF list = <<>> THEN 0
  ELSE (IF Head(list).type = type THEN Head(list).amount ELSE 0)
         + SumOfType(Tail(list), type)

plannedIncome == SumOfType(plan.items, "income")

plannedExpenses == SumOfType(plan.items, "expense")

netBalance == plannedIncome - plannedExpenses

PlanNames == {<<>>, <<"A">>}

PlanAmounts == {<<"0">>, <<"5">>}

PlanTypes == {"expense", "income"}

\* handleAddItem, lines 57-72: the validation and the insert at the store
handleAddItem(name, amount, type, insertOk) ==
  /\ plan.adding = NoItem
  /\ IF ~PlanFormValid(name, amount)
       THEN plan' = [plan EXCEPT !.error = "Please enter a valid name and a positive amount."]
     ELSE IF ~insertOk
       THEN plan' = [plan EXCEPT !.error = "Failed to add item. "]
     ELSE /\ plan.nextId <= MaxItems
          /\ LET row == [id |-> plan.nextId, name |-> Trim(name),
                         amount |-> ToNumber(amount), type |-> type]
             IN  plan' = [plan EXCEPT !.store = @ \cup {row}, !.nextId = @ + 1,
                                      !.triggers = @ + 1, !.adding = row, !.error = ""]
  /\ UNCHANGED <<contributions, nextId, wh, last, env, ord, pay, orders>>

\* handleAddItem, lines 74-80: the insert response has arrived
handleAddItemDone ==
  /\ plan.adding # NoItem
  /\ plan' = [plan EXCEPT !.items = Prepend(plan.adding, @), !.adding = NoItem]
  /\ UNCHANGED <<contributions, nextId, wh, last, env, ord, pay, orders>>

\* fetchPlanningItems, lines 31-35: a due call starts and the store reads the rows
fetchPlanningItems ==
  /\ plan.triggers > 0
  /\ Len(plan.fetches) < MaxFetches
  /\ plan' = [plan EXCEPT !.triggers = @ - 1,
                          !.fetches = Append(@, NewestFirst(plan.store))]
  /\ UNCHANGED <<contributions, nextId, wh, last, env, ord, pay, orders>>

\* fetchPlanningItems, lines 37-42: the response of one of the selects has arrived
fetchPlanningItemsDone(i, selectOk) ==
  /\ i \in 1..Len(plan.fetches)
  /\ LET rest == [j \in 1..(Len(plan.fetches) - 1) |->
                    IF j < i THEN plan.fetches[j] ELSE plan.fetches[j + 1]]
     IN  plan' = IF selectOk
                   THEN [plan EXCEPT !.items = plan.fetches[i], !.fetches = rest]
                   ELSE [plan EXCEPT !.fetches = rest,
                           !.error = "Could not fetch planning data. Make sure the 'planning' table exists."]
  /\ UNCHANGED <<contributions, nextId, wh, last, env, ord, pay, orders>>

\* handleDeleteItem, lines 83-89: the delete at the store
handleDeleteItem(id, deleteOk) ==
  /\ plan.deleting = 0
  /\ \E k \in 1..Len(plan.items) : plan.items[k].id = id
  /\ IF ~deleteOk
       THEN plan' = [plan EXCEPT !.error = "Failed to delete item. "]
       ELSE plan' = [plan EXCEPT !.store = {r \in @ : r.id # id},
                       !.triggers = IF id \in {r.id : r \in plan.store} THEN @ + 1 ELSE @,
                       !.deleting = id]
  /\ UNCHANGED <<contributions, nextId, wh, last, env, ord, pay, orders>>

\* handleDeleteItem, lines 90-92: the delete response has arrived
handleDeleteItemDone ==
  /\ plan.deleting # 0
  /\ plan' = [plan EXCEPT !.items = WithoutId(@, plan.deleting), !.deleting = 0]
  /\ UNCHANGED <<contributions, nextId, wh, last, env, ord, pay, orders>>

NextPlan ==
  \/ \E n \in PlanNames, a \in PlanAmounts, t \in PlanTypes, ok \in BOOLEAN :
       handleAddItem(n, a, t, ok)
  \/ handleAddItemDone
  \/ fetchPlanningItems
  \/ \E i \in 1..MaxFetches, ok \in BOOLEAN : fetchPlanningItemsDone(i, ok)
  \/ \E id \in 1..MaxItems, ok \in BOOLEAN : handleDeleteItem(id, ok)
  \/ handleDeleteItemDone

(***************************************************************************)
(* The ledger with its clients and the webhook.                            *)
(***************************************************************************)
Init ==
  /\ contributions = {}
  /\ nextId = 1
  /\ wh = [w \in Invocations |-> IdleSlot]
  /\ last = NoInvocation
  /\ env = AllEnv
  /\ ord = IdleOrder
  /\ pay = NoPay
  /\ orders = {}
  /\ plan = NoPlan

Next ==
  \/ \E p \in Payloads : WebhookReceive(p)
  \/ \E w \in Invocations, o \in StoreOutcomes : WebhookUpdate(w, o)
  \/ \E c \in FormNames, a \in FormAmounts, ok \in BOOLEAN :
       handleAddContribution(c, a, ok)
  \/ \E c \in FormNames, a \in FormAmounts, ok \in BOOLEAN :
       handlePayOnlineInsert(c, a, ok)
  \/ \E id \in 1..MaxRows, ok \in BOOLEAN : handleDeleteContribution(id, ok)

Spec == Init /\ [][Next]_vars

(***************************************************************************)
(* The Order Request Handler with its environment and the gateway.         *)
(***************************************************************************)
InitOrder ==
  /\ contributions = {}
  /\ nextId = 1
  /\ wh = [w \in Invocations |-> IdleSlot]
  /\ last = NoInvocation
  /\ env \in EnvChoices
  /\ ord = IdleOrder
  /\ pay = NoPay
  /\ orders = {}
  /\ plan = NoPlan

NextOrder ==
  \/ \E r \in OrderRequests : OrderReceive(r, Now)
  \/ \E g \in GatewayReplies : OrderGatewayAnswer(g)

SpecOrder == InitOrder /\ [][NextOrder]_vars

(***************************************************************************)
(* The online payment from end to end: handlePayOnline, the order function *)
(* it invokes, the gateway, the webhook, and the deletion of rows.         *)
(***************************************************************************)
\* the environment of the order function: complete, or without the secret
PayEnvChoices == {AllEnv, AllEnv \ {"CASHFREE_SECRET_KEY"}}

\* the gateway's answers: fetch rejects, an order with a session token, a 200
\* without one, a 200 with the body null, a refusal
PayGatewayReplies ==
  { GatewayReply(TRUE, FALSE, 0, NoText),
    GatewayReply(FALSE, TRUE, 200, JsonText("json", FALSE, "", "session_abc", TRUE)),
    GatewayReply(FALSE, TRUE, 200, JsonText("json", FALSE, "", "", FALSE)),
    GatewayReply(FALSE, TRUE, 200, JsonText("json", TRUE, "", "", FALSE)),
    GatewayReply(FALSE, FALSE, 400, JsonText("json", FALSE, "order_id already exists", "", FALSE)) }

\* the notifications: a SUCCESS for each order id the order function can build for
\* a row, a SUCCESS whose order id it never builds ("order_01_17"), and a FAILED
PayPayloads ==
  { Payload("POST", "value", "PAYMENT", FALSE, FirstOrderId, "SUCCESS"),
    Payload("POST", "value", "PAYMENT", FALSE,
            StrId(MkOrderId(<<"0">> \o NatToStr(1), Now)), "SUCCESS"),
    Payload("POST", "value", "PAYMENT", FALSE, FirstOrderId, "FAILED") }

\* the form: a name, and an amount that is not positive or one that is
PayFormAmounts == {<<"0">>, <<"5">>}

InitPay ==
  /\ contributions = {}
  /\ nextId = 1
  /\ wh = [w \in Invocations |-> IdleSlot]
  /\ last = NoInvocation
  /\ env \in PayEnvChoices
  /\ ord = IdleOrder
  /\ pay = NoPay
  /\ orders = {}
  /\ plan = NoPlan

NextPay ==
  \/ \E a \in PayFormAmounts, ok \in BOOLEAN : handlePayOnline(<<" ", "A">>, a, ok)
  \/ \E reached \in BOOLEAN : handlePayOnlineInvoke(reached)
  \/ \E g \in PayGatewayReplies : OrderGatewayAnswer(g)
  \/ \E sdk \in BOOLEAN : handlePayOnlineSession(sdk)
  \/ \E o \in CheckoutOutcomes : handlePayOnlineCheckout(o)
  \/ \E p \in PayPayloads : WebhookReceive(p)
  \/ \E w \in Invocations, o \in {"ok", "error"} : WebhookUpdate(w, o)
  \/ \E id \in 1..MaxRows, ok \in BOOLEAN : handleDeleteContribution(id, ok)

SpecPay == InitPay /\ [][NextPay]_vars

(***************************************************************************)
(* Reconciliation under re-delivery: online rows, their deletion, and the  *)
(* webhook, with a gateway that keeps delivering the SUCCESS notification  *)
(* of every order and a store that does not refuse an update forever.      *)
(***************************************************************************)
\* the SUCCESS notification of the order of row n
SuccessPayload(n) ==
  Payload("POST", "value", "PAYMENT", FALSE, StrId(MkOrderId(NatToStr(n), Now)), "SUCCESS")

LivePayloads ==
  {SuccessPayload(n) : n \in 1..MaxRows}
    \cup {Payload("POST", "value", "PAYMENT", FALSE, FirstOrderId, "FAILED")}

\* the gateway delivers the SUCCESS notification of row n's order once more
Redeliver(n) == WebhookReceive(SuccessPayload(n))

\* the store applies an awaited update of row n
StoreApplies(n) == \E w \in Invocations : wh[w].id = n /\ WebhookUpdate(w, "ok")

NextLive ==
  \/ \E p \in LivePayloads : WebhookReceive(p)
  \/ \E w \in Invocations, o \in StoreOutcomes : WebhookUpdate(w, o)
  \/ \E ok \in BOOLEAN : handlePayOnlineInsert(<<" ", "A">>, <<"5">>, ok)
  \/ \E id \in 1..MaxRows, ok \in BOOLEAN : handleDeleteContribution(id, ok)

SpecLive ==
  /\ Init
  /\ [][NextLive]_vars
  /\ \A n \in 1..MaxRows : SF_vars(Redeliver(n)) /\ SF_vars(StoreApplies(n))

\* the Planning view with its store
SpecPlan == Init /\ [][NextPlan]_vars

(***************************************************************************)
(* What the claims speak of, stated without the handlers' own parsing.     *)
(***************************************************************************)
RECURSIVE StripZeros(_)
StripZeros(ds) ==
  IF ds # <<>> /\ ds[1] = "0" THEN StripZeros(Tail(ds)) ELSE ds

\* s is order_<digits>_... with k digits
OrderFormWith(s, k) ==
  /\ Len(s) >= Len(OrderPrefix) + k + 1
  /\ SubSeq(s, 1, Len(OrderPrefix)) = OrderPrefix
  /\ \A i \in 1..k : IsDigit(s[Len(OrderPrefix) + i])
  /\ s[Len(OrderPrefix) + k + 1] = "_"

HasOrderForm(s) == \E k \in 1..Len(s) : OrderFormWith(s, k)

\* s is order_<digits>_... and <digits> is the number n
NamesRow(s, n) ==
  \E k \in 1..Len(s) :
    /\ OrderFormWith(s, k)
    /\ StripZeros(SubSeq(s, Len(OrderPrefix) + 1, Len(OrderPrefix) + k)) = NatToStr(n)

\* a POST whose body is a JSON value other than null
IsEvent(p) == p.method = "POST" /\ p.parse = "value"

\* an event with payment_status "SUCCESS" and an order id that names row n
SuccessFor(p, n) ==
  /\ IsEvent(p)
  /\ p.payment_status = "SUCCESS"
  /\ p.order_id.kind = "string"
  /\ NamesRow(p.order_id.chars, n)

\* an event with another payment status and an order id that names row n
FailureFor(p, n) ==
  /\ IsEvent(p)
  /\ p.payment_status = "FAILED"
  /\ p.order_id.kind = "string"
  /\ NamesRow(p.order_id.chars, n)

MarkedAsTest(p) == p.type = "WEBHOOK" /\ p.test_object

Live(n) == n \in RowIds(contributions)

(***************************************************************************)
(* C1, as stated: after the handler completes a SUCCESS notification for   *)
(* an existing row, that row has status success.  It fails when the store  *)
(* returns an error for the update.                                        *)
(***************************************************************************)
C1_Original ==
  \A n \in 1..MaxRows :
    (last.n = 1 /\ SuccessFor(last.payload, n) /\ last.before # "none" /\ Live(n))
      => StatusOf(contributions, n) = "success"

(***************************************************************************)
(* C1, amended: a SUCCESS notification that is no connectivity test and    *)
(* whose order id names row n makes the handler update row n; when the     *)
(* store applies the update, the row, if it existed then (last.before is   *)
(* its status at that moment) and still exists, has status success, whether*)
(* it was pending or already success (a second delivery), and the response *)
(* is 200 "Webhook processed".                                             *)
(***************************************************************************)
C1_SuccessReconciles ==
  \A n \in 1..MaxRows :
    (last.n = 1 /\ SuccessFor(last.payload, n) /\ ~MarkedAsTest(last.payload))
      => /\ last.id = n
         /\ last.attempts = 1
         /\ last.store = "ok" =>
              /\ (last.before # "none" /\ Live(n)) => StatusOf(contributions, n) = "success"
              /\ last.resp.status = 200
              /\ last.resp.body = "Webhook processed"

\* the second delivery of a SUCCESS notification for an online row has completed
C1_Witness ==
  \E n \in 1..MaxRows :
    /\ last.n = 1 /\ SuccessFor(last.payload, n) /\ ~MarkedAsTest(last.payload)
    /\ last.store = "ok" /\ last.before = "success"
    /\ Live(n) /\ RowOf(contributions, n).method = "online"
    /\ StatusOf(contributions, n) = "success"

(***************************************************************************)
(* C2: every invocation of the webhook handler ends with a response of     *)
(* status 200.  The code breaks it: the body "null", an order_id that is   *)
(* no string and a store update that throws leave the handler as an        *)
(* exception, which the server answers with 500.                           *)
(***************************************************************************)
C2_Always200 == last.n = 1 => last.resp.status = 200

(***************************************************************************)
(* C3, as stated: an event whose order_id is a non-empty string that does   *)
(* not match order_<digits>_... modifies no row and is answered with 200   *)
(* and the format error.  It fails for an event without payment_status,    *)
(* which is answered with the structure error.                             *)
(***************************************************************************)
C3_Original ==
  (last.n = 1 /\ IsEvent(last.payload) /\ last.payload.order_id.kind = "string"
     /\ last.payload.order_id.chars # <<>>
     /\ ~HasOrderForm(last.payload.order_id.chars))
    => /\ ~last.touched
       /\ last.resp.status = 200
       /\ last.resp.body = "Invalid order_id format"

(***************************************************************************)
(* C3, amended: an event whose order_id is a string that does not match    *)
(* order_<digits>_... issues no store update, modifies no row and is       *)
(* answered with 200; the body is "Invalid order_id format" when the event *)
(* is no connectivity test, the order_id is not empty and a payment_status *)
(* is present, the test acknowledgment for a connectivity test, and        *)
(* "Invalid webhook structure" otherwise.                                  *)
(***************************************************************************)
C3_BadFormatRejected ==
  (last.n = 1 /\ IsEvent(last.payload) /\ last.payload.order_id.kind = "string"
     /\ ~HasOrderForm(last.payload.order_id.chars))
    => /\ ~last.touched
       /\ last.attempts = 0
       /\ last.resp.status = 200
       /\ last.resp.body =
            IF MarkedAsTest(last.payload) THEN "acknowledged"
            ELSE IF last.payload.order_id.chars = <<>>
                    \/ last.payload.payment_status = "ABSENT"
              THEN "Invalid webhook structure"
            ELSE "Invalid order_id format"

\* "order_1" with SUCCESS has been answered with the format error while row 1 is pending
C3_Witness ==
  /\ last.n = 1 /\ IsEvent(last.payload)
  /\ last.payload.order_id = StrId(OrderPrefix \o <<"1">>)
  /\ last.payload.payment_status = "SUCCESS"
  /\ last.resp.body = "Invalid order_id format"
  /\ StatusOf(contributions, 1) = "pending"

(***************************************************************************)
(* C8: a connectivity test (type WEBHOOK with a test_object) modifies no   *)
(* row, issues no store update and is acknowledged with 200, also when it  *)
(* carries an order_id and payment_status SUCCESS.                         *)
(***************************************************************************)
C8_TestAcknowledged ==
  (last.n = 1 /\ IsEvent(last.payload) /\ MarkedAsTest(last.payload))
    => /\ ~last.touched
       /\ last.attempts = 0
       /\ last.resp = Response(200, "acknowledged")

\* a test that carries SUCCESS for row 1 has been acknowledged; row 1 is still pending
C8_Witness ==
  /\ last.n = 1 /\ SuccessFor(last.payload, 1) /\ MarkedAsTest(last.payload)
  /\ last.resp.body = "acknowledged"
  /\ StatusOf(contributions, 1) = "pending"

\* one step of the ledger, for C9: how a row appears and how its fields change
C9_Step ==
  /\ \A r \in contributions' : r.method = "cash" => r.status = "success"
  /\ \A n \in 1..MaxRows :
       /\ (~Live(n) /\ n \in RowIds(contributions'))
            => LET r == RowOf(contributions', n)
               IN  \/ r.method = "cash" /\ r.status = "success"
                   \/ r.method = "online" /\ r.status = "pending"
       /\ (Live(n) /\ n \in RowIds(contributions'))
            => LET r == RowOf(contributions, n)
                   t == RowOf(contributions', n)
               IN  /\ t.method = r.method
                   /\ t.status # r.status =>
                        /\ r.method = "online"
                        /\ r.status = "pending" /\ t.status = "success"
                        /\ \E w \in Invocations :
                             /\ wh[w].busy /\ ~wh'[w].busy
                             /\ SuccessFor(wh[w].payload, n)
                             /\ last'.payload = wh[w].payload
                             /\ last'.store = "ok"

(***************************************************************************)
(* C9: in every step of the system (the ledger is empty at the start): a   *)
(* cash row has status success; a row is created as cash/success or        *)
(* online/pending; a row's method never changes; and the status of a       *)
(* row changes only from pending to success, of an online row, in the step *)
(* in which a webhook invocation for a SUCCESS notification that names the *)
(* row completes its store update (so no client operation changes it).     *)
(***************************************************************************)
C9_LedgerLifecycle == [][C9_Step]_vars

\* an online row that was pending is success after the webhook's update; a cash row exists
C9_Witness ==
  \E n \in 1..MaxRows :
    /\ last.n = 1 /\ SuccessFor(last.payload, n) /\ last.before = "pending"
    /\ Live(n) /\ RowOf(contributions, n).method = "online"
    /\ StatusOf(contributions, n) = "success"
    /\ \E r \in contributions : r.method = "cash"

(***************************************************************************)
(* C10: whatever webhook deliveries follow, in whatever order, a row that  *)
(* has status success keeps it for as long as it exists.                   *)
(***************************************************************************)
C10_SuccessIsStable ==
  [][\A n \in 1..MaxRows :
       (StatusOf(contributions, n) = "success" /\ n \in RowIds(contributions'))
         => StatusOf(contributions', n) = "success"]_vars

\* a FAILED notification for an online row was processed after the row had become success
C10_Witness ==
  \E n \in 1..MaxRows :
    /\ last.n = 1 /\ FailureFor(last.payload, n) /\ last.before = "success"
    /\ last.resp.body = "Webhook processed"
    /\ Live(n) /\ RowOf(contributions, n).method = "online"
    /\ StatusOf(contributions, n) = "success"

(***************************************************************************)
(* C16: an event (a connectivity test or not) whose order_id has the form  *)
(* order_<digits>_... and whose payment_status is not "SUCCESS" makes the  *)
(* handler issue no store update: the invocation completes with 200        *)
(* without a write and without having changed a row, and no invocation     *)
(* that awaits the store carries such an event.                            *)
(***************************************************************************)
C16_NonSuccessNoUpdate ==
  /\ \A w \in Invocations : wh[w].busy => wh[w].payload.payment_status = "SUCCESS"
  /\ (last.n = 1 /\ IsEvent(last.payload) /\ last.payload.order_id.kind = "string"
        /\ HasOrderForm(last.payload.order_id.chars)
        /\ last.payload.payment_status # "SUCCESS")
       => /\ last.attempts = 0
          /\ last.store = "none"
          /\ ~last.touched
          /\ last.resp.status = 200

\* a FAILED notification for a pending online row was processed; the row is still pending
C16_Witness ==
  \E n \in 1..MaxRows :
    /\ last.n = 1 /\ FailureFor(last.payload, n) /\ last.before = "pending"
    /\ last.resp.body = "Webhook processed"
    /\ Live(n) /\ RowOf(contributions, n).method = "online"
    /\ StatusOf(contributions, n) = "pending"

(***************************************************************************)
(* C17: when the store returns an error for the status update, the         *)
(* invocation ends with status 200 and the note "Database update failed",  *)
(* it has changed no row (the row keeps the status it had), and it has     *)
(* issued exactly one update.                                              *)
(***************************************************************************)
C17_StoreErrorAcknowledged ==
  (last.n = 1 /\ last.store = "error")
    => /\ last.resp.status = 200
       /\ last.resp.body = "Database update failed"
       /\ ~last.touched
       /\ last.attempts = 1

\* the update of a pending online row failed at the store; the row is still pending
C17_Witness ==
  \E n \in 1..MaxRows :
    /\ last.n = 1 /\ last.store = "error" /\ SuccessFor(last.payload, n)
    /\ last.before = "pending"
    /\ Live(n) /\ StatusOf(contributions, n) = "pending"

\* one step of the ledger, for C18: what may change in a row that exists
C18_Step ==
  \A n \in 1..MaxRows :
    (Live(n) /\ n \in RowIds(contributions'))
      => LET r == RowOf(contributions, n)
             t == RowOf(contributions', n)
         IN  /\ Cardinality({x \in contributions' : x.id = n}) = 1
             /\ t.contributor = r.contributor
             /\ t.amount = r.amount
             /\ t.method = r.method
             /\ t # r =>
                  \E w \in Invocations :
                    /\ wh[w].busy /\ ~wh'[w].busy
                    /\ wh[w].payload.order_id.kind = "string"
                    /\ NamesRow(wh[w].payload.order_id.chars, n)
                    /\ t = [r EXCEPT !.status = "success"]

(***************************************************************************)
(* C18: in every step of the system, a row that exists before and after    *)
(* the step keeps its contributor, amount and method; and it changes at    *)
(* all only in the step in which a webhook invocation whose order_id names *)
(* that row completes its store update, and then only in its status: the   *)
(* update leaves every other row as it was.                                *)
(***************************************************************************)
C18_OnlyStatusOfThatRow == [][C18_Step]_vars

\* the webhook set row 1 to success while row 2, online as well, stayed pending
C18_Witness ==
  /\ last.n = 1 /\ SuccessFor(last.payload, 1) /\ last.store = "ok" /\ last.touched
  /\ StatusOf(contributions, 1) = "success"
  /\ Live(2) /\ RowOf(contributions, 2).method = "online"
  /\ StatusOf(contributions, 2) = "pending"

(***************************************************************************)
(* What the claims about handlePayOnline speak of.                         *)
(***************************************************************************)
\* the order function has run for the present run of handlePayOnline
FunctionRanForPay ==
  \/ pay.pc \in {"await", "checkout"}
  \/ pay.pc = "done" /\ pay.failed \in {"", "session", "sdk", "checkout"}

\* the row the present run inserted is still in the ledger as it was inserted
PayRowPending ==
  /\ pay.id \in RowIds(contributions)
  /\ RowOf(contributions, pay.id).method = "online"
  /\ RowOf(contributions, pay.id).status = "pending"

(***************************************************************************)
(* C11: in every state of a run of handlePayOnline:                        *)
(*  - the order function is invoked only after the insert of the pending   *)
(*    row succeeded (the store has handed out the id), and the request it  *)
(*    gets carries that row's id in decimal, the form's amount and name;   *)
(*  - cashfree.checkout is called only after the order function was        *)
(*    invoked and answered 200 with a payment_session_id and the SDK was   *)
(*    found loaded, and it gets that payment_session_id;                   *)
(*  - a step that fails ends the run with a message for the user and none  *)
(*    of the later steps performed; a run that ends without a failure has  *)
(*    performed all three.                                                 *)
(***************************************************************************)
C11_StepsInOrder ==
  /\ pay.invoked = 1 => (pay.id >= 1 /\ pay.id < nextId)
  /\ FunctionRanForPay =>
       /\ pay.invoked = 1
       /\ ord.req.method = "POST"
       /\ ord.req.contribution_id.isString
       /\ StripZeros(ord.req.contribution_id.chars) = ord.req.contribution_id.chars
       /\ parseInt(ord.req.contribution_id.chars) = pay.id
       /\ ord.req.amount = Num(5)
       /\ ord.req.contributor = Str(<<"A">>)
  /\ pay.checkouts = 1 =>
       /\ pay.invoked = 1
       /\ ord.pc = "done" /\ ord.resp.status = 200
       /\ ord.resp.body.syntax = "json" /\ ~ord.resp.body.isNull
       /\ ord.resp.body.payment_session_id # ""
       /\ pay.session = ord.resp.body.payment_session_id
       /\ pay.sdk = "loaded"
  /\ pay.failed # "" =>
       /\ pay.pc = "done"
       /\ pay.error # <<>>
       /\ pay.failed \in {"form", "insert"} =>
            (pay.id = 0 /\ pay.invoked = 0 /\ pay.checkouts = 0)
       /\ pay.failed \in {"order", "session", "sdk"} => pay.checkouts = 0
  /\ (pay.pc = "done" /\ pay.failed = "") => (pay.checkouts = 1 /\ pay.error = <<>>)
  /\ pay.pc \in {"invoke", "await", "checkout"} => pay.error = <<>>

\* a run went through all three steps: row inserted, session obtained, checkout called
C11_Witness ==
  /\ pay.pc = "done" /\ pay.failed = ""
  /\ pay.checkouts = 1 /\ pay.session = "session_abc"
  /\ pay.id = 2 /\ PayRowPending

\* one step of the end-to-end system, for C19: what may happen to a pending row
C19_Step ==
  /\ \A r \in contributions' : r.status \in {"pending", "success"}
  /\ (pay' # pay /\ pay'.pc # "invoke") => contributions' = contributions
  /\ \A n \in 1..MaxRows :
       (Live(n) /\ StatusOf(contributions, n) = "pending")
         => \/ StatusOf(contributions', n) = "pending"
            \/ /\ StatusOf(contributions', n) = "success"
               /\ \E w \in Invocations :
                    /\ wh[w].busy /\ ~wh'[w].busy
                    /\ SuccessFor(wh[w].payload, n)
                    /\ last'.store = "ok"
            \/ /\ n \notin RowIds(contributions')
               /\ contributions' = {r \in contributions : r.id # n}
               /\ UNCHANGED <<nextId, wh, last, env, ord, pay, orders, plan>>

(***************************************************************************)
(* C19: in every step of the end-to-end system a pending row stays pending *)
(* unless the step is the store update of a webhook invocation for a       *)
(* SUCCESS notification that names the row, applied by the store (the row  *)
(* becomes success), or the deletion of the row by                         *)
(* handleDeleteContribution; no row ever has another status than pending   *)
(* or success; and no step of handlePayOnline other than the insert        *)
(* changes the ledger, so a run that fails at the order request, at the    *)
(* session, at the SDK or at the checkout leaves its row as inserted.      *)
(***************************************************************************)
C19_PendingUntilSuccessOrDelete == [][C19_Step]_vars

\* the gateway refused the order: the run ended with its message, the row is still pending
C19_Witness ==
  /\ pay.pc = "done" /\ pay.failed = "order" /\ pay.error # <<>>
  /\ ord.pc = "done" /\ ord.calls = 1 /\ ord.resp.status = 502
  /\ ord.req.contribution_id = Str(NatToStr(pay.id))
  /\ PayRowPending

(***************************************************************************)
(* C20, as stated: after the handler completes a SUCCESS notification      *)
(* whose order id names an existing row and was never sent to the gateway  *)
(* by the order function, the row has status success.  It fails when the   *)
(* store returns an error for the update.                                  *)
(***************************************************************************)
C20_Original ==
  \A n \in 1..MaxRows :
    (last.n = 1 /\ SuccessFor(last.payload, n)
       /\ last.payload.order_id.chars \notin orders
       /\ last.before # "none" /\ Live(n))
      => StatusOf(contributions, n) = "success"

(***************************************************************************)
(* C20, amended: a SUCCESS notification that is no connectivity test and   *)
(* whose order id names row n makes the handler update row n although the  *)
(* order function never sent that order id to the gateway; when the store  *)
(* applies the update, the row, if it existed then and still exists, has   *)
(* status success and the response is 200 "Webhook processed".             *)
(***************************************************************************)
C20_FabricatedAccepted ==
  \A n \in 1..MaxRows :
    (last.n = 1 /\ SuccessFor(last.payload, n) /\ ~MarkedAsTest(last.payload)
       /\ last.payload.order_id.chars \notin orders)
      => /\ last.id = n
         /\ last.attempts = 1
         /\ (last.store = "ok" /\ last.before # "none" /\ Live(n))
              => /\ StatusOf(contributions, n) = "success"
                 /\ last.resp = Response(200, "Webhook processed")

\* "order_01_17", an order id the order function never builds, made the pending row 1
\* success, while the only order sent to the gateway is that of row 2
C20_Witness ==
  /\ last.n = 1 /\ SuccessFor(last.payload, 1)
  /\ last.payload.order_id = StrId(MkOrderId(<<"0", "1">>, Now))
  /\ last.store = "ok" /\ last.before = "pending"
  /\ orders = {MkOrderId(<<"2">>, Now)}
  /\ Live(1) /\ RowOf(contributions, 1).method = "online"
  /\ StatusOf(contributions, 1) = "success"

(***************************************************************************)
(* What the claims about the Order Request Handler speak of.               *)
(***************************************************************************)
\* a POST whose body is a JSON value other than null has been taken up
OrderTaken == ord.pc # "idle" /\ ord.req.method = "POST" /\ ord.req.parse = "value"

AmountRejectable == ~(ord.req.amount.isNumber /\ ord.req.amount.v > 0)

\* contribution_id missing, no string, empty or only white space
ContributionIdRejectable ==
  \/ ~ord.req.contribution_id.isString
  \/ \A i \in 1..Len(ord.req.contribution_id.chars) :
       ord.req.contribution_id.chars[i] = " "

IsValidationError(r) == r.status = 400 /\ r.error # <<>> /\ r.plain = ""

\* the gateway has answered the order-creation call with an HTTP response
GatewayAnswered == ord.pc = "done" /\ ord.calls = 1 /\ ~ord.gw.thrown

(***************************************************************************)
(* C4, as stated: a request whose amount is no number or is <= 0 gets a    *)
(* 400 {error} response and no gateway call is made.  It fails when a      *)
(* configuration value is missing: the response is then 500.               *)
(***************************************************************************)
C4_Original ==
  (OrderTaken /\ AmountRejectable)
    => /\ ord.pc = "done"
       /\ IsValidationError(ord.resp)
       /\ ord.calls = 0

(***************************************************************************)
(* C4, amended: for a request whose amount is no number or is <= 0 the     *)
(* handler makes no gateway call; when the four configuration values are   *)
(* set it returns 400 with the {error} body of the amount check, otherwise *)
(* 500 with the configuration error.                                       *)
(***************************************************************************)
C4_BadAmountRejected ==
  (OrderTaken /\ AmountRejectable)
    => /\ ord.pc = "done"
       /\ ord.calls = 0
       /\ ord.resp = IF AllEnv \subseteq env THEN AmountError ELSE ConfigError

\* amount 0 with a valid contributor and contribution_id has been rejected with 400
C4_Witness ==
  /\ OrderTaken /\ ord.pc = "done"
  /\ ord.req.amount = Num(0)
  /\ ord.req.contributor = Str(<<"A">>) /\ ord.req.contribution_id = Str(<<"1">>)
  /\ ord.resp.status = 400

(***************************************************************************)
(* C5, as stated: a request whose contribution_id is missing, no string,   *)
(* empty or only white space gets a 400 {error} response and no gateway    *)
(* call is made.  It fails when a configuration value is missing.          *)
(***************************************************************************)
C5_Original ==
  (OrderTaken /\ ContributionIdRejectable)
    => /\ ord.pc = "done"
       /\ IsValidationError(ord.resp)
       /\ ord.calls = 0

(***************************************************************************)
(* C5, amended: for a request whose contribution_id is missing, no string, *)
(* empty or only white space the handler makes no gateway call; when the   *)
(* four configuration values are set it returns 400 with an {error} body   *)
(* (that of the contribution_id check when amount and contributor are      *)
(* valid), otherwise 500 with the configuration error.                     *)
(***************************************************************************)
C5_BadContributionIdRejected ==
  (OrderTaken /\ ContributionIdRejectable)
    => /\ ord.pc = "done"
       /\ ord.calls = 0
       /\ IF AllEnv \subseteq env
            THEN /\ IsValidationError(ord.resp)
                 /\ (ord.req.amount = Num(5) /\ ord.req.contributor = Str(<<"A">>))
                      => ord.resp = ContributionIdError
            ELSE ord.resp = ConfigError

\* a contribution_id of one blank, with amount and contributor valid, has been rejected
C5_Witness ==
  /\ OrderTaken /\ ord.pc = "done"
  /\ ord.req.amount = Num(5) /\ ord.req.contributor = Str(<<"A">>)
  /\ ord.req.contribution_id = Str(<<" ">>)
  /\ ord.resp = ContributionIdError

(***************************************************************************)
(* C6: whenever the gateway answers with a status that is not 2xx, the     *)
(* handler returns 502 with an {error} body, whatever the upstream body.   *)
(* The code breaks it: it parses the body before it looks at the status,   *)
(* and a body that is no JSON (or is null) ends in the catch-all 500.      *)
(***************************************************************************)
C6_UpstreamFailureIs502 ==
  (GatewayAnswered /\ ~ord.gw.ok)
    => /\ ord.resp.status = 502
       /\ ord.resp.error # <<>>

(***************************************************************************)
(* C7, as stated: whenever the gateway answers with a success status, the  *)
(* handler responds 200 with the gateway's body (the same JSON value).     *)
(* It fails for a success answer whose body is no JSON.                    *)
(***************************************************************************)
C7_Original ==
  (GatewayAnswered /\ ord.gw.ok)
    => /\ ord.resp.status = 200
       /\ ord.resp.body.syntax = "json" /\ ord.gw.body.syntax = "json"
       /\ JsonParse(ord.resp.body) = JsonParse(ord.gw.body)

(***************************************************************************)
(* C7, amended: whenever the gateway answers with a success status and a   *)
(* body that is JSON, the handler responds 200 with the parsed body        *)
(* serialised again: the same JSON value, so the payment_session_id in it  *)
(* is unmodified (the white space of the text is not kept); a success      *)
(* answer whose body is no JSON gets the 500 internal error.               *)
(***************************************************************************)
C7_SuccessForwarded ==
  (GatewayAnswered /\ ord.gw.ok)
    => IF ord.gw.body.syntax = "json"
         THEN /\ ord.resp.status = 200
              /\ ord.resp.error = <<>>
              /\ ord.resp.body.syntax = "json"
              /\ ~ord.resp.body.spaced
              /\ JsonParse(ord.resp.body) = JsonParse(ord.gw.body)
              /\ ord.resp.body.payment_session_id = ord.gw.body.payment_session_id
         ELSE ord.resp = InternalError

\* a success answer that carries a session token, written with white space, was forwarded
C7_Witness ==
  /\ GatewayAnswered /\ ord.gw.ok
  /\ ord.gw.body.spaced /\ ord.gw.body.payment_session_id = "session_abc"
  /\ ord.resp.status = 200
  /\ ord.resp.body.payment_session_id = "session_abc"

(***************************************************************************)
(* What C12, C13 and C15 speak of.                                         *)
(***************************************************************************)
\* a POST has been taken up by the order function
PostTaken == ord.pc # "idle" /\ ord.req.method = "POST"

\* one of the four configuration values is missing
ConfigMissing == \E v \in AllEnv : v \notin env

(***************************************************************************)
(* C12: when one of the four configuration values is missing, every POST,  *)
(* whatever its body (no JSON, null, valid or invalid fields), is answered *)
(* with status 500 and the configuration error, and the handler makes no   *)
(* call to the gateway, in that invocation or any earlier one.             *)
(***************************************************************************)
C12_MissingConfigIs500 ==
  (PostTaken /\ ConfigMissing)
    => /\ ord.pc = "done"
       /\ ord.resp.status = 500
       /\ ord.resp.error = <<"Server configuration error.">>
       /\ ord.calls = 0
       /\ orders = {}

\* a request whose fields are all valid was refused because only APP_URL is missing
C12_Witness ==
  /\ PostTaken /\ env = AllEnv \ {"APP_URL"}
  /\ ord.req.parse = "value" /\ ord.req.amount = Num(5)
  /\ ord.req.contributor = Str(<<"A">>) /\ ord.req.contribution_id = Str(<<"1">>)
  /\ ord.resp.status = 500

\* the faults C13 names: the request body or the gateway's body is the JSON null,
\* the call of the gateway throws, the gateway's body is no JSON
OrderFault ==
  \/ ord.req.parse = "null"
  \/ ord.calls = 1 /\ ord.gw.thrown
  \/ ord.calls = 1 /\ ~ord.gw.thrown /\ ord.gw.body.syntax = "invalid"
  \/ ord.calls = 1 /\ ~ord.gw.thrown /\ ord.gw.body.syntax = "json" /\ ord.gw.body.isNull

(***************************************************************************)
(* C13: every POST the order function has finished has a response whose    *)
(* status is 200, 400, 500 or 502; a response that is not 200 has a JSON   *)
(* body {error} with a non-empty message, a 200 has a JSON body; and a     *)
(* fault (a null body, the gateway call throwing, a gateway body that is   *)
(* no JSON or is null) ends in such a response too: with 500 and the       *)
(* internal error, unless a check answered before the fault was reached    *)
(* or the null body of the gateway came with a success status.             *)
(***************************************************************************)
C13_StructuredResponse ==
  (PostTaken /\ ord.pc = "done")
    => /\ ord.resp.status \in {200, 400, 500, 502}
       /\ ord.resp.plain = ""
       /\ ord.resp.status # 200 =>
            (ord.resp.error # <<>> /\ \A i \in 1..Len(ord.resp.error) : ord.resp.error[i] # "")
       /\ ord.resp.status = 200 => (ord.resp.error = <<>> /\ ord.resp.body.syntax = "json")
       /\ (OrderFault /\ ~ConfigMissing /\ ~(ord.calls = 1 /\ ~ord.gw.thrown /\ ord.gw.ok
                                            /\ ord.gw.body.syntax = "json"))
            => (ord.resp.status = 500
                /\ ord.resp.error = <<"An unexpected internal server error occurred.">>)

\* the gateway refused with a body that is no JSON, and the handler answered 500 {error}
C13_Witness ==
  /\ PostTaken /\ ord.pc = "done" /\ ord.calls = 1
  /\ ~ord.gw.thrown /\ ~ord.gw.ok /\ ord.gw.body.syntax = "invalid"
  /\ ord.resp.status = 500 /\ ord.resp.error # <<>>

(***************************************************************************)
(* C14: for every contribution_id the order function accepts (it has sent  *)
(* an order to the gateway), the order id it built is one the webhook's    *)
(* pattern matches, and the id the webhook extracts from it, written in    *)
(* decimal, is the contribution_id.  The code breaks it: the order         *)
(* function accepts every string that is not blank, "x" and " 1" too, and  *)
(* the webhook's pattern matches neither "order_x_17" nor "order_ 1_17".   *)
(***************************************************************************)
C14_RoundTrip ==
  (PostTaken /\ ord.calls = 1)
    => /\ MatchOrderId(ord.orderId) # <<>>
       /\ NatToStr(parseInt(MatchOrderId(ord.orderId))) = ord.req.contribution_id.chars

\* what C15 expects: the response of the first check, in the order configuration,
\* body, amount, contributor, contribution_id, that the request fails; the fields
\* are judged here by what the contract says of them, not by the handler's tests
BodyUnparseable == ord.req.parse = "invalid"

AmountBad == ~ord.req.amount.isNumber \/ ~(ord.req.amount.v > 0)

ContributorBad ==
  \/ ~ord.req.contributor.isString
  \/ \A i \in 1..Len(ord.req.contributor.chars) : ord.req.contributor.chars[i] = " "

FirstFailingCheck ==
  IF ConfigMissing THEN "configuration"
  ELSE IF BodyUnparseable THEN "body"
  ELSE IF AmountBad THEN "amount"
  ELSE IF ContributorBad THEN "contributor"
  ELSE IF ContributionIdRejectable THEN "contribution_id"
  ELSE "none"

Checks == {"configuration", "body", "amount", "contributor", "contribution_id"}

\* the response with which the handler answers the failure of each check
CheckResponse ==
  [configuration |-> ConfigError, body |-> BodyError, amount |-> AmountError,
   contributor |-> ContributorError, contribution_id |-> ContributionIdError]

C21_EventuallySuccess ==
  /\ \A n \in 1..MaxRows :
       (Live(n) /\ StatusOf(contributions, n) = "pending")
         ~> (~Live(n) \/ StatusOf(contributions, n) = "success")
  /\ [][\A n \in 1..MaxRows :
          (StatusOf(contributions, n) = "success" /\ Live(n)')
            => StatusOf(contributions, n)' = "success"]_vars

\* the store refused the update of row 1, the row is still pending, and the next
\* delivery of the same notification awaits the store
C21_Witness ==
  /\ last.n = 1 /\ last.payload = SuccessPayload(1) /\ last.store = "error"
  /\ Live(1) /\ StatusOf(contributions, 1) = "pending"
  /\ \E w \in Invocations : wh[w].busy /\ wh[w].payload = SuccessPayload(1)

(***************************************************************************)
(* C22, as stated: after the handler completes a SUCCESS notification      *)
(* whose order id names a row that is not in the ledger, the invocation    *)
(* has changed nothing and its response is 200 "Webhook processed".  It    *)
(* fails when the store returns an error for the update.                   *)
(***************************************************************************)
C22_Original ==
  \A n \in 1..MaxRows :
    (last.n = 1 /\ SuccessFor(last.payload, n) /\ ~MarkedAsTest(last.payload)
       /\ last.before = "none")
      => /\ ~last.touched
         /\ last.resp = Response(200, "Webhook processed")

\* one step of the system, for C22: what a step of the webhook does to the ledger
C22_Step ==
  /\ (wh' # wh \/ last' # last) =>
       /\ RowIds(contributions') = RowIds(contributions)
       /\ Cardinality(contributions') = Cardinality(contributions)
  /\ \A w \in Invocations, n \in 1..MaxRows :
       (wh[w].busy /\ ~wh'[w].busy /\ SuccessFor(wh[w].payload, n) /\ ~Live(n))
         => /\ contributions' = contributions
            /\ last'.payload = wh[w].payload
            /\ last'.before = "none" /\ ~last'.touched
            /\ last'.store = "ok" => last'.resp = Response(200, "Webhook processed")
            /\ last'.store = "error" => last'.resp = Response(200, "Database update failed")

(***************************************************************************)
(* C22, amended: no step of the webhook handler adds a row to the ledger   *)
(* or removes one; and the store update of an invocation for a SUCCESS     *)
(* notification whose order id names a row that is not in the ledger       *)
(* (never created, or deleted before the update) leaves the ledger as it   *)
(* is, the row is not created, and the response is 200 "Webhook processed" *)
(* when the store reports no error, 200 "Database update failed" when it   *)
(* returns one.                                                            *)
(***************************************************************************)
C22_NoInsertNoDelete == [][C22_Step]_vars

\* row 1 was deleted; a SUCCESS notification for it was then processed and it is not back
C22_Witness ==
  /\ last.n = 1 /\ SuccessFor(last.payload, 1) /\ last.store = "ok"
  /\ last.before = "none" /\ last.resp.body = "Webhook processed"
  /\ nextId > 1 /\ ~Live(1)

\* the sum of the amounts of the rows of a set that have a type
RECURSIVE SumOfRows(_, _)
SumOfRows(rows, type) ==
  IF rows = {} THEN 0
  ELSE LET r == CHOOSE x \in rows : TRUE
       IN  (IF r.type = type THEN r.amount ELSE 0) + SumOfRows(rows \ {r}, type)

\* the items of the list, each once
ListedItems == {plan.items[i] : i \in 1..Len(plan.items)}

(***************************************************************************)
(* C23: in every state of the Planning view no two entries of plannedItems *)
(* have the same id, and planned income, planned expenses and net balance  *)
(* are the sums over the listed items counted once each.  The code breaks  *)
(* it: when the select of a fetchPlanningItems run that a change           *)
(* notification started reads the new row and its response arrives before  *)
(* the insert response of handleAddItem, the list is replaced by rows that *)
(* hold the new item and handleAddItem then prepends it again.             *)
(***************************************************************************)
C23_NoDuplicates ==
  /\ \A i, j \in 1..Len(plan.items) : i # j => plan.items[i].id # plan.items[j].id
  /\ plannedIncome = SumOfRows(ListedItems, "income")
  /\ plannedExpenses = SumOfRows(ListedItems, "expense")
  /\ netBalance = SumOfRows(ListedItems, "income") - SumOfRows(ListedItems, "expense")

=============================================================================
